---- MODULE Spec2Model ----
(***************************************************************************)
(* Model of the Romana watcher plugin (vpcrouter_romana_plugin/romana.py): *)
(* the topology load (fetch, parse, build, validate, publish), the         *)
(* supervisor thread watch_etcd, the watch callback and stop().            *)
(***************************************************************************)
EXTENDS Integers, Sequences, FiniteSets, TLC

(***************************************************************************)
(* Bounds of the model.                                                    *)
(***************************************************************************)
\* longest host list of a network entry in the enumerated documents
MaxHosts == 2
\* how often the environment changes the document at the watched key
MaxChanges == 1
\* how often the store changes between reachable and unreachable
MaxFlips == 2
\* size of the pool of client object identities
MaxClients == 3

(***************************************************************************)
(* Values.                                                                 *)
(***************************************************************************)
\* Python's None, as the value of self.etcd and self.watch_id
None == -1

\* a field that is absent from the JSON document
Missing == "<missing>"

ValidCidrs == {"10.0.0.0/24", "10.1.0.0/24"}
CidrVals == ValidCidrs \cup {"not-a-cidr"}
ValidIps == {"10.0.0.1", "10.0.0.2"}
IpVals == ValidIps \cup {"not-an-ip"}

\* the handles add_watch_callback returns: the first one a stream issues,
\* which is 0, and a later one
WatchIds == {0, 1}
Clients == 1..MaxClients

(***************************************************************************)
(* The topology document stored at the key, as json.loads sees it.         *)
(*   kind "nojson"     : no value at the key, or a value that does not     *)
(*                       decode                                            *)
(*   kind "nonetworks" : an object without the networks field              *)
(*   kind "networks"   : networks is the sequence of (name, groups) pairs  *)
(*                       in the order d['networks'].items() yields them    *)
(* An entry carries its groups' cidr (or Missing) and hosts (hasHosts      *)
(* FALSE when absent); a host object is a record whose ip is the address   *)
(* (or Missing).                                                           *)
(***************************************************************************)
RECURSIVE SeqsUpTo(_, _)
SeqsUpTo(S, n) ==
  IF n = 0 THEN {<<>>}
  ELSE LET shorter == SeqsUpTo(S, n - 1)
       IN  shorter \cup {Append(s, x) : s \in shorter, x \in S}

HostObjects == {[ip |-> v] : v \in IpVals \cup {Missing}}

HostLists == SeqsUpTo(HostObjects, MaxHosts)

EntriesOf(n) ==
  {[name |-> n, cidr |-> c, hasHosts |-> TRUE, hosts |-> hs] :
       c \in CidrVals \cup {Missing}, hs \in HostLists}
  \cup {[name |-> n, cidr |-> c, hasHosts |-> FALSE, hosts |-> <<>>] :
       c \in CidrVals \cup {Missing}}

NoJsonDoc == [kind |-> "nojson", networks |-> <<>>]
NoNetworksDoc == [kind |-> "nonetworks", networks |-> <<>>]
NetworksDoc(nets) == [kind |-> "networks", networks |-> nets]

\* d is one of the enumerated documents: no JSON, no networks field, or up
\* to two entries, net1 iterated before net2 (the load never reads a name)
IsBoundedDoc(d) ==
  \/ d = NoJsonDoc
  \/ d = NoNetworksDoc
  \/ \E k \in 0..2 : \E e1 \in EntriesOf("net1") : \E e2 \in EntriesOf("net2") :
        d = NetworksDoc(SubSeq(<<e1, e2>>, 1, k))

\* the documents the store holds in the supervisor's specification
DocA ==
  NetworksDoc(<<[name |-> "net1", cidr |-> "10.0.0.0/24", hasHosts |-> TRUE,
                 hosts |-> <<[ip |-> "10.0.0.1"], [ip |-> "10.0.0.2"]>>]>>)
DocB ==
  NetworksDoc(<<[name |-> "net1", cidr |-> "10.0.0.0/24", hasHosts |-> TRUE,
                 hosts |-> <<[ip |-> "10.0.0.2"]>>]>>)
DocMalformed ==
  NetworksDoc(<<[name |-> "net1", cidr |-> Missing, hasHosts |-> TRUE,
                 hosts |-> <<[ip |-> "10.0.0.1"]>>]>>)
DocRejected ==
  NetworksDoc(<<[name |-> "net1", cidr |-> "not-a-cidr", hasHosts |-> TRUE,
                 hosts |-> <<[ip |-> "10.0.0.1"]>>]>>)
StoreDocs == {DocA, DocB, DocMalformed, DocRejected}

(***************************************************************************)
(* load_topology_send_route_spec, as the code computes it.  A step that    *)
(* raises yields ok = FALSE; the except clause of the load catches it.     *)
(***************************************************************************)
\* route_spec = {}
EmptyRouteSpec == [c \in {} |-> <<>>]

\* a faulty HostIps: the list is built back to front
RECURSIVE HostIpsReversed(_, _, _)
HostIpsReversed(hosts, i, acc) ==
  IF i > Len(hosts) THEN [ok |-> TRUE, val |-> acc]
  ELSE IF hosts[i].ip = Missing THEN [ok |-> FALSE, val |-> <<>>]
  ELSE HostIpsReversed(hosts, i + 1, <<hosts[i].ip>> \o acc)

\* [h['ip'] for h in net_data['groups']['hosts']]
RECURSIVE HostIps(_, _, _)
HostIps(hosts, i, acc) ==
  IF i > Len(hosts) THEN [ok |-> TRUE, val |-> acc]
  ELSE IF hosts[i].ip = Missing THEN [ok |-> FALSE, val |-> <<>>]
  ELSE HostIps(hosts, i + 1, Append(acc, hosts[i].ip))

\* a faulty SetItem: a key already present keeps its value
SetItemKeepFirst(rs, cidr, hosts) ==
  [c \in DOMAIN rs \cup {cidr} |-> IF c \in DOMAIN rs THEN rs[c] ELSE hosts]

\* route_spec[cidr] = hosts
SetItem(rs, cidr, hosts) ==
  [c \in DOMAIN rs \cup {cidr} |-> IF c = cidr THEN hosts ELSE rs[c]]

\* a faulty LoopBody: an entry that lacks a field is skipped
LoopBodySkipsBadEntry(rs, e) ==
  IF e.cidr = Missing \/ ~e.hasHosts THEN [ok |-> TRUE, spec |-> rs]
  ELSE LET ips == HostIps(e.hosts, 1, <<>>)
       IN  IF ~ips.ok THEN [ok |-> TRUE, spec |-> rs]
           ELSE [ok |-> TRUE, spec |-> SetItem(rs, e.cidr, ips.val)]

\* the body of the for loop over d['networks'].items(), for one entry
LoopBody(rs, e) ==
  IF e.cidr = Missing \/ ~e.hasHosts THEN [ok |-> FALSE, spec |-> rs]
  ELSE LET ips == HostIps(e.hosts, 1, <<>>)
       IN  IF ~ips.ok THEN [ok |-> FALSE, spec |-> rs]
           ELSE [ok |-> TRUE, spec |-> SetItem(rs, e.cidr, ips.val)]

\* for net_name, net_data in d['networks'].items(): ...
RECURSIVE BuildRouteSpec(_, _, _)
BuildRouteSpec(nets, i, rs) ==
  IF i > Len(nets) THEN [ok |-> TRUE, spec |-> rs]
  ELSE LET r == LoopBody(rs, nets[i])
       IN  IF ~r.ok THEN r ELSE BuildRouteSpec(nets, i + 1, r.spec)

\* common.parse_route_spec_config(route_spec): the validator of the host
\* framework; it raises unless every key is a CIDR and every host an address
ValidatorAccepts(rs) ==
  \A c \in DOMAIN rs :
    /\ c \in ValidCidrs
    /\ \A j \in 1..Len(rs[c]) : rs[c][j] \in ValidIps

\* self.etcd.get(self.key): raises on None (no attribute get) and when the
\* store cannot be reached
FetchSucceeds(handle, reach) == handle # None /\ reach

\* a faulty LoadOutcome: the validator's verdict is ignored
LoadOutcomeUnvalidated(handle, reach, d) ==
  IF ~FetchSucceeds(handle, reach) THEN [published |-> FALSE, spec |-> EmptyRouteSpec]
  ELSE IF d.kind # "networks" THEN [published |-> FALSE, spec |-> EmptyRouteSpec]
  ELSE LET b == BuildRouteSpec(d.networks, 1, EmptyRouteSpec)
       IN  IF b.ok THEN [published |-> TRUE, spec |-> b.spec]
           ELSE [published |-> FALSE, spec |-> EmptyRouteSpec]

\* the try block: what is put on q_route_spec, if anything
LoadOutcome(handle, reach, d) ==
  IF ~FetchSucceeds(handle, reach) THEN [published |-> FALSE, spec |-> EmptyRouteSpec]
  ELSE IF d.kind # "networks" THEN [published |-> FALSE, spec |-> EmptyRouteSpec]
  ELSE LET b == BuildRouteSpec(d.networks, 1, EmptyRouteSpec)
       IN  IF b.ok /\ ValidatorAccepts(b.spec)
           THEN [published |-> TRUE, spec |-> b.spec]
           ELSE [published |-> FALSE, spec |-> EmptyRouteSpec]

\* a faulty LoadRaises: the except clause does not cover a handle of None
LoadRaisesOnNoHandle(handle, reach, d) == handle = None

\* except Exception: whatever the try block raises is caught and logged, so
\* no exception leaves load_topology_send_route_spec
LoadRaises(handle, reach, d) == FALSE

\* a faulty LoadTopologySendRouteSpec: the RouteSpec is built and dropped
LoadTopologyWithoutSend(handle, reach, d, q) == q

\* the queue after one call of load_topology_send_route_spec
LoadTopologySendRouteSpec(handle, reach, d, q) ==
  LET o == LoadOutcome(handle, reach, d)
  IN  IF o.published THEN Append(q, o.spec) ELSE q

(***************************************************************************)
(* State.                                                                  *)
(*   keep_running, etcd, watch_id, q_route_spec : the plugin's fields      *)
(*   supPc     : position of the RomanaMon thread in watch_etcd            *)
(*   stopPc    : position of the thread that calls stop()                  *)
(*   stopEtcd  : the value of self.etcd that stop() loaded for the call    *)
(*   doc, reachable, watches, pending : the store: the document at the     *)
(*               key, whether the store answers, the watch registrations   *)
(*               alive at it, and the notifications not yet delivered      *)
(*   nChanges, nFlips : how often the environment has acted                *)
(*   initLoads : loads the supervisor made on the client it holds          *)
(*   initDoc   : the document that load fetched (NoJsonDoc if none)        *)
(*   initPub   : that load put a RouteSpec on the queue                    *)
(*   cleanConn : the store has answered ever since the last connect began  *)
(*   conf      : the configuration the host framework parsed (addr, port)  *)
(*   argCheck  : what check_arguments made of conf                         *)
(*   cbRaised  : an exception has left event_callback                      *)
(***************************************************************************)
VARIABLES keep_running, etcd, watch_id, q_route_spec,
          supPc, stopPc, stopEtcd,
          doc, reachable, watches, pending,
          nChanges, nFlips,
          initLoads, initDoc, initPub, cleanConn,
          conf, argCheck, cbRaised

vars == <<keep_running, etcd, watch_id, q_route_spec, supPc, stopPc, stopEtcd,
          doc, reachable, watches, pending, nChanges, nFlips,
          initLoads, initDoc, initPub, cleanConn, conf, argCheck, cbRaised>>

pluginVars == <<keep_running, etcd, watch_id, q_route_spec>>
stopVars == <<stopPc, stopEtcd>>
envVars == <<doc, reachable, nChanges, nFlips>>
ghostVars == <<initLoads, initDoc, initPub, cleanConn>>
argVars == <<conf, argCheck>>
auxVars == <<conf, argCheck, cbRaised>>

\* add_arguments: the defaults of --address and --port
DefaultPort == 2379
DefaultConf == [addr |-> "localhost", port |-> DefaultPort]

\* check_arguments has not been called
Unchecked == [result |-> "unchecked", ipChecked |-> FALSE]

\* __init__, with the store in any of its states
Init ==
  /\ keep_running = TRUE
  /\ watch_id = None
  /\ etcd = None
  /\ q_route_spec = <<>>
  /\ supPc = "init"
  /\ stopPc = "idle"
  /\ stopEtcd = None
  /\ doc \in StoreDocs
  /\ reachable \in BOOLEAN
  /\ watches = {}
  /\ pending = 0
  /\ nChanges = 0
  /\ nFlips = 0
  /\ initLoads = 0
  /\ initDoc = NoJsonDoc
  /\ initPub = FALSE
  /\ cleanConn = FALSE
  /\ conf = DefaultConf
  /\ argCheck = Unchecked
  /\ cbRaised = FALSE

(***************************************************************************)
(* The supervisor thread: start() and watch_etcd.                          *)
(***************************************************************************)
\* start(): spawn the thread that runs watch_etcd
Start ==
  /\ supPc = "init"
  /\ supPc' = "outer"
  /\ UNCHANGED <<auxVars, pluginVars, stopVars, envVars, watches, pending, ghostVars>>

\* while self.keep_running:
OuterTest ==
  /\ supPc = "outer"
  /\ supPc' = IF keep_running THEN "clr_etcd" ELSE "done"
  /\ UNCHANGED <<auxVars, pluginVars, stopVars, envVars, watches, pending, ghostVars>>

\* self.etcd = None
ClearEtcd ==
  /\ supPc = "clr_etcd"
  /\ etcd' = None
  /\ supPc' = "clr_watch"
  /\ UNCHANGED <<auxVars, keep_running, watch_id, q_route_spec, stopVars, envVars,
                 watches, pending, ghostVars>>

\* self.watch_id = None
ClearWatchId ==
  /\ supPc = "clr_watch"
  /\ watch_id' = None
  /\ supPc' = "guard"
  /\ UNCHANGED <<auxVars, keep_running, etcd, q_route_spec, stopVars, envVars,
                 watches, pending, ghostVars>>

\* etcd_check_status()
EtcdCheckStatus == etcd # None /\ reachable

\* a faulty EstablishGuard: the watch handle is tested for truth, not for None
EstablishGuardFalsyWatch ==
  etcd = None \/ ~EtcdCheckStatus \/ watch_id = None \/ watch_id = 0

\* if not self.etcd or not self.etcd_check_status() or self.watch_id is None:
EstablishGuard == etcd = None \/ ~EtcdCheckStatus \/ watch_id = None

EnterEstablish ==
  /\ supPc = "guard"
  /\ supPc' = IF EstablishGuard THEN "connect" ELSE "probe"
  /\ UNCHANGED <<auxVars, pluginVars, stopVars, envVars, watches, pending, ghostVars>>

\* a client object no live reference or registration names
FreeClients ==
  {c \in Clients : c # etcd /\ c # stopEtcd /\ \A w \in watches : w.client # c}
NewClient == CHOOSE c \in FreeClients : \A d \in FreeClients : c <= d

\* a faulty ConnectOk: the watch is registered without the initial read
ConnectOkSkipsLoad ==
  /\ supPc = "connect"
  /\ etcd' = NewClient
  /\ supPc' = "add_watch"
  /\ initLoads' = 0
  /\ initDoc' = NoJsonDoc
  /\ initPub' = FALSE
  /\ cleanConn' = reachable
  /\ UNCHANGED <<auxVars, keep_running, watch_id, q_route_spec, stopVars, envVars,
                 watches, pending>>

\* self.etcd = etcd3.client(...): the client opens its channel lazily, so the
\* call can succeed with the store down
ConnectOk ==
  /\ supPc = "connect"
  /\ etcd' = NewClient
  /\ supPc' = "load"
  /\ initLoads' = 0
  /\ initDoc' = NoJsonDoc
  /\ initPub' = FALSE
  /\ cleanConn' = reachable
  /\ UNCHANGED <<auxVars, keep_running, watch_id, q_route_spec, stopVars, envVars,
                 watches, pending>>

\* etcd3.client(...) raises: control goes to the except clause
ConnectFails ==
  /\ supPc = "connect"
  /\ ~reachable
  /\ supPc' = "exc_etcd"
  /\ cleanConn' = FALSE
  /\ UNCHANGED <<auxVars, pluginVars, stopVars, envVars, watches, pending,
                 initLoads, initDoc, initPub>>

\* self.load_topology_send_route_spec(), the initial data read
InitialLoad ==
  /\ supPc = "load"
  /\ q_route_spec' = LoadTopologySendRouteSpec(etcd, reachable, doc, q_route_spec)
  /\ initLoads' = initLoads + 1
  /\ initDoc' = IF FetchSucceeds(etcd, reachable) THEN doc ELSE NoJsonDoc
  /\ initPub' = (q_route_spec' # q_route_spec)
  /\ supPc' = "add_watch"
  /\ UNCHANGED <<auxVars, keep_running, etcd, watch_id, stopVars, envVars, watches,
                 pending, cleanConn>>

\* self.watch_id = self.etcd.add_watch_callback(self.key, self.event_callback)
AddWatchOk ==
  /\ supPc = "add_watch"
  /\ reachable
  /\ \E w \in WatchIds :
       /\ watch_id' = w
       /\ watches' = watches \cup {[client |-> etcd, wid |-> w]}
  /\ supPc' = "probe"
  /\ UNCHANGED <<auxVars, keep_running, etcd, q_route_spec, stopVars, envVars, pending,
                 ghostVars>>

\* add_watch_callback raises: control goes to the except clause
AddWatchFails ==
  /\ supPc = "add_watch"
  /\ ~reachable
  /\ supPc' = "exc_etcd"
  /\ UNCHANGED <<auxVars, pluginVars, stopVars, envVars, watches, pending, ghostVars>>

\* a faulty ExceptClearEtcd: the client handle survives the failure
ExceptKeepsEtcd ==
  /\ supPc = "exc_etcd"
  /\ supPc' = "exc_watch"
  /\ UNCHANGED <<auxVars, pluginVars, stopVars, envVars, watches, pending, ghostVars>>

\* except: self.etcd = None
ExceptClearEtcd ==
  /\ supPc = "exc_etcd"
  /\ etcd' = None
  /\ supPc' = "exc_watch"
  /\ UNCHANGED <<auxVars, keep_running, watch_id, q_route_spec, stopVars, envVars,
                 watches, pending, ghostVars>>

\* except: self.watch_id = None
ExceptClearWatchId ==
  /\ supPc = "exc_watch"
  /\ watch_id' = None
  /\ supPc' = "probe"
  /\ UNCHANGED <<auxVars, keep_running, etcd, q_route_spec, stopVars, envVars,
                 watches, pending, ghostVars>>

\* a faulty Probe: a failed probe ends the thread
ProbeShutsDown ==
  /\ supPc = "probe"
  /\ supPc' = IF EtcdCheckStatus /\ keep_running THEN "sleep"
              ELSE IF EtcdCheckStatus THEN "outer" ELSE "done"
  /\ UNCHANGED <<auxVars, pluginVars, stopVars, envVars, watches, pending, ghostVars>>

\* a faulty Probe: the loop sleeps whenever the plugin is running
ProbeSleepsWhileRunning ==
  /\ supPc = "probe"
  /\ supPc' = IF keep_running THEN "sleep" ELSE "outer"
  /\ UNCHANGED <<auxVars, pluginVars, stopVars, envVars, watches, pending, ghostVars>>

\* while self.etcd_check_status() and self.keep_running: ... ; on exit the
\* warning is logged and the outer loop tests keep_running again
Probe ==
  /\ supPc = "probe"
  /\ supPc' = IF EtcdCheckStatus /\ keep_running THEN "sleep" ELSE "outer"
  /\ UNCHANGED <<auxVars, pluginVars, stopVars, envVars, watches, pending, ghostVars>>

\* time.sleep(self.connect_check_time)
Sleep ==
  /\ supPc = "sleep"
  /\ supPc' = "probe"
  /\ UNCHANGED <<auxVars, pluginVars, stopVars, envVars, watches, pending, ghostVars>>

Supervisor ==
  \/ OuterTest \/ ClearEtcd \/ ClearWatchId \/ EnterEstablish
  \/ ConnectOk \/ ConnectFails \/ InitialLoad \/ AddWatchOk \/ AddWatchFails
  \/ ExceptClearEtcd \/ ExceptClearWatchId \/ Probe \/ Sleep

(***************************************************************************)
(* event_callback, run by the store client's watcher thread.               *)
(***************************************************************************)
EventCallback ==
  /\ pending > 0
  /\ pending' = pending - 1
  /\ q_route_spec' = LoadTopologySendRouteSpec(etcd, reachable, doc, q_route_spec)
  /\ cbRaised' = (cbRaised \/ LoadRaises(etcd, reachable, doc))
  /\ UNCHANGED <<argVars, keep_running, etcd, watch_id, supPc, stopVars, envVars,
                 watches, initLoads, initDoc, initPub, cleanConn>>

(***************************************************************************)
(* stop(), called from another thread once start() has run.                *)
(***************************************************************************)
\* Python's truth value of self.watch_id: None and 0 are false
Truthy(w) == w # None /\ w # 0

\* if self.watch_id:
StopTestWatchId ==
  /\ stopPc = "idle"
  /\ supPc # "init"
  /\ stopPc' = IF Truthy(watch_id) THEN "load_etcd" ELSE "set_flag"
  /\ UNCHANGED <<auxVars, pluginVars, supPc, stopEtcd, envVars, watches, pending, ghostVars>>

\* self.etcd.cancel_watch: the attribute lookup raises AttributeError on None
StopLoadEtcd ==
  /\ stopPc = "load_etcd"
  /\ stopEtcd' = etcd
  /\ stopPc' = IF etcd = None THEN "raised" ELSE "cancel"
  /\ UNCHANGED <<auxVars, pluginVars, supPc, envVars, watches, pending, ghostVars>>

\* the registrations left after client.cancel_watch(w)
CancelWatch(ws, client, w) == ws \ {[client |-> client, wid |-> w]}

\* a faulty StopCancelWatch: stop() forgets the handle it has cancelled
StopCancelWatchForgets ==
  /\ stopPc = "cancel"
  /\ watches' = CancelWatch(watches, stopEtcd, watch_id)
  /\ watch_id' = None
  /\ stopPc' = "set_flag"
  /\ UNCHANGED <<auxVars, keep_running, etcd, q_route_spec, supPc, stopEtcd, envVars,
                 pending, ghostVars>>

\* (self.watch_id): the argument is read now, and the watch is cancelled
StopCancelWatch ==
  /\ stopPc = "cancel"
  /\ watches' = CancelWatch(watches, stopEtcd, watch_id)
  /\ stopPc' = "set_flag"
  /\ UNCHANGED <<auxVars, pluginVars, supPc, stopEtcd, envVars, pending, ghostVars>>

\* cancel_watch raises
StopCancelRaises ==
  /\ stopPc = "cancel"
  /\ ~reachable
  /\ stopPc' = "raised"
  /\ UNCHANGED <<auxVars, pluginVars, supPc, stopEtcd, envVars, watches, pending, ghostVars>>

\* self.keep_running = False
StopSetFlag ==
  /\ stopPc = "set_flag"
  /\ keep_running' = FALSE
  /\ stopPc' = "join"
  /\ UNCHANGED <<auxVars, etcd, watch_id, q_route_spec, supPc, stopEtcd, envVars,
                 watches, pending, ghostVars>>

\* self.observer_thread.join() returns once watch_etcd has returned
StopJoin ==
  /\ stopPc = "join"
  /\ supPc = "done"
  /\ stopPc' = "returned"
  /\ UNCHANGED <<auxVars, pluginVars, supPc, stopEtcd, envVars, watches, pending, ghostVars>>

Stop ==
  \/ StopTestWatchId \/ StopLoadEtcd \/ StopCancelWatch \/ StopCancelRaises
  \/ StopSetFlag \/ StopJoin

(***************************************************************************)
(* The store and the network.                                              *)
(***************************************************************************)
\* the document at the key is replaced; every registration alive at a
\* reachable store gets a notification
ChangeDoc ==
  /\ nChanges < MaxChanges
  /\ nChanges' = nChanges + 1
  /\ \E d \in StoreDocs \ {doc} : doc' = d
  /\ pending' = pending + (IF reachable THEN Cardinality(watches) ELSE 0)
  /\ UNCHANGED <<auxVars, pluginVars, supPc, stopVars, reachable, nFlips, watches, ghostVars>>

\* the store becomes unreachable, or reachable again
Flip ==
  /\ nFlips < MaxFlips
  /\ nFlips' = nFlips + 1
  /\ reachable' = ~reachable
  /\ cleanConn' = FALSE
  /\ UNCHANGED <<auxVars, pluginVars, supPc, stopVars, doc, nChanges, watches, pending,
                 initLoads, initDoc, initPub>>

\* a registration dies with its stream while the store is unreachable
LoseWatch ==
  /\ ~reachable
  /\ \E w \in watches : watches' = watches \ {w}
  /\ UNCHANGED <<auxVars, pluginVars, supPc, stopVars, envVars, pending, ghostVars>>

Environment == ChangeDoc \/ Flip \/ LoseWatch

Next == Start \/ Supervisor \/ EventCallback \/ Stop \/ Environment

Spec == Init /\ [][Next]_vars

(***************************************************************************)
(* The threads run whenever they can: the supervisor never blocks for more *)
(* than a timeout or a sleep, stop() only in join, and the client's        *)
(* watcher thread delivers what is pending.                                *)
(***************************************************************************)
FairSpec ==
  Spec /\ WF_vars(Start \/ Supervisor) /\ WF_vars(Stop) /\ WF_vars(EventCallback)

(***************************************************************************)
(* The load on its own: the plugin is connected and watching, the key held *)
(* no value at the initial read, and the store now holds any document of   *)
(* the enumerated documents, for which one notification is due.           *)
(***************************************************************************)
InitLoad ==
  /\ keep_running = TRUE
  /\ etcd = 1
  /\ watch_id = 0
  /\ q_route_spec = <<>>
  /\ supPc = "sleep"
  /\ stopPc = "idle"
  /\ stopEtcd = None
  /\ IsBoundedDoc(doc)
  /\ reachable \in BOOLEAN
  /\ watches = {[client |-> 1, wid |-> 0]}
  /\ pending = 1
  /\ nChanges = MaxChanges
  /\ nFlips = MaxFlips
  /\ initLoads = 1
  /\ initDoc = NoJsonDoc
  /\ initPub = FALSE
  /\ cleanConn = FALSE
  /\ conf = DefaultConf
  /\ argCheck = Unchecked
  /\ cbRaised = FALSE

NextLoad == EventCallback

SpecLoad == InitLoad /\ [][NextLoad]_vars

(***************************************************************************)
(* check_arguments on its own: the host framework hands it the parsed      *)
(* configuration before any plugin object exists.  The ports tried lie     *)
(* around both ends of the accepted range; the addresses are the default,  *)
(* another spelling of it, an IP address and a host name.                  *)
(***************************************************************************)
MaxPortMargin == 5
PortLimit == 65535

PortsTested ==
  ((0 - MaxPortMargin)..MaxPortMargin)
    \cup ((PortLimit - MaxPortMargin)..(PortLimit + MaxPortMargin))
    \cup {DefaultPort}
AddrsTested == {"localhost", "LOCALHOST", "10.0.0.1", "etcd.example.com"}

\* utils.ip_check(addr) returns for an IP address and raises ArgsError otherwise
IpCheckPasses(addr) == addr \in {"10.0.0.1"}

\* a faulty CheckArguments: the upper limit itself is let through
CheckArgumentsInclusive(c) ==
  IF ~(0 < c.port /\ c.port <= PortLimit)
    THEN [result |-> "ArgsError: port", ipChecked |-> FALSE]
  ELSE IF ~(c.addr = "localhost")
    THEN [result |-> IF IpCheckPasses(c.addr) THEN "accepted" ELSE "ArgsError: addr",
          ipChecked |-> TRUE]
  ELSE [result |-> "accepted", ipChecked |-> FALSE]

\* if not 0 < conf['port'] < 65535: raise ArgsError(...)
\* if not conf['addr'] == "localhost": utils.ip_check(conf['addr'])
CheckArguments(c) ==
  IF ~(0 < c.port /\ c.port < PortLimit)
    THEN [result |-> "ArgsError: port", ipChecked |-> FALSE]
  ELSE IF ~(c.addr = "localhost")
    THEN [result |-> IF IpCheckPasses(c.addr) THEN "accepted" ELSE "ArgsError: addr",
          ipChecked |-> TRUE]
  ELSE [result |-> "accepted", ipChecked |-> FALSE]

CheckArgumentsCall ==
  /\ argCheck = Unchecked
  /\ argCheck' = CheckArguments(conf)
  /\ UNCHANGED <<conf, cbRaised, pluginVars, supPc, stopVars, envVars, watches,
                 pending, ghostVars>>

InitArgs ==
  /\ keep_running = TRUE
  /\ etcd = None
  /\ watch_id = None
  /\ q_route_spec = <<>>
  /\ supPc = "init"
  /\ stopPc = "idle"
  /\ stopEtcd = None
  /\ doc = DocA
  /\ reachable = TRUE
  /\ watches = {}
  /\ pending = 0
  /\ nChanges = 0
  /\ nFlips = 0
  /\ initLoads = 0
  /\ initDoc = NoJsonDoc
  /\ initPub = FALSE
  /\ cleanConn = FALSE
  /\ conf \in [addr : AddrsTested, port : PortsTested]
  /\ argCheck = Unchecked
  /\ cbRaised = FALSE

NextArgs == CheckArgumentsCall

SpecArgs == InitArgs /\ [][NextArgs]_vars

(***************************************************************************)
(* establish_etcd_connection_and_watch on its own: one call, entered with  *)
(* any combination of handles, against a store that may come or go once    *)
(* while the call runs.  The call has returned when control is at "probe". *)
(***************************************************************************)
InitEstablish ==
  /\ keep_running = TRUE
  /\ etcd \in {None, 1}
  /\ watch_id \in {None} \cup WatchIds
  /\ q_route_spec = <<>>
  /\ supPc = "guard"
  /\ stopPc = "idle"
  /\ stopEtcd = None
  /\ doc \in StoreDocs
  /\ reachable \in BOOLEAN
  /\ watches = IF etcd # None /\ watch_id # None
                 THEN {[client |-> etcd, wid |-> watch_id]} ELSE {}
  /\ pending = 0
  /\ nChanges = MaxChanges
  /\ nFlips = MaxFlips - 1
  /\ initLoads = 0
  /\ initDoc = NoJsonDoc
  /\ initPub = FALSE
  /\ cleanConn = FALSE
  /\ conf = DefaultConf
  /\ argCheck = Unchecked
  /\ cbRaised = FALSE

NextEstablish ==
  \/ EnterEstablish
  \/ ConnectOk \/ ConnectFails \/ InitialLoad \/ AddWatchOk \/ AddWatchFails
  \/ ExceptClearEtcd \/ ExceptClearWatchId
  \/ Flip

SpecEstablish == InitEstablish /\ [][NextEstablish]_vars

(***************************************************************************)
(* What the properties speak of, stated on the document itself.            *)
(***************************************************************************)
\* every required field of the document is present
StructurallySound(d) ==
  /\ d.kind = "networks"
  /\ \A i \in 1..Len(d.networks) :
       /\ d.networks[i].cidr # Missing
       /\ d.networks[i].hasHosts
       /\ \A j \in 1..Len(d.networks[i].hosts) : d.networks[i].hosts[j].ip # Missing

\* no later entry of the document carries entry i's CIDR
LastWithItsCidr(d, i) ==
  \A k \in (i + 1)..Len(d.networks) : d.networks[k].cidr # d.networks[i].cidr

\* no other entry of the document carries entry i's CIDR
OnlyWithItsCidr(d, i) ==
  \A k \in 1..Len(d.networks) : k # i => d.networks[k].cidr # d.networks[i].cidr

\* the addresses of entry i's hosts, in the document's order
IpList(d, i) ==
  [j \in 1..Len(d.networks[i].hosts) |-> d.networks[i].hosts[j].ip]

CidrsOf(d) == {d.networks[i].cidr : i \in 1..Len(d.networks)}

\* the validator has nothing to reject in what the document maps
PassesValidation(d) ==
  \A i \in 1..Len(d.networks) :
    /\ d.networks[i].cidr \in ValidCidrs
    /\ LastWithItsCidr(d, i) =>
         \A j \in 1..Len(d.networks[i].hosts) : d.networks[i].hosts[j].ip \in ValidIps

\* a well-formed topology document: sound, with proper CIDRs and addresses
WellFormed(d) ==
  /\ StructurallySound(d)
  /\ \A i \in 1..Len(d.networks) :
       /\ d.networks[i].cidr \in ValidCidrs
       /\ \A j \in 1..Len(d.networks[i].hosts) : d.networks[i].hosts[j].ip \in ValidIps

\* two network names carry the same CIDR
HasDuplicateCidr(d) ==
  /\ d.kind = "networks"
  /\ \E i, k \in 1..Len(d.networks) :
       /\ i # k
       /\ d.networks[i].name # d.networks[k].name
       /\ d.networks[i].cidr # Missing
       /\ d.networks[i].cidr = d.networks[k].cidr

\* the step of the supervisor's initial load, and of a callback's load
InitialLoadStep == supPc = "load" /\ supPc' # "load"
CallbackStep == pending' < pending

\* fetch, parse, build and validation all succeed in the current state
LoadSucceedsNow ==
  /\ etcd # None
  /\ reachable
  /\ StructurallySound(doc)
  /\ PassesValidation(doc)

(***************************************************************************)
(* C1: a load publishes exactly one RouteSpec when fetch, parse, build and *)
(* validation all succeed and leaves the sink's sequence as it was         *)
(* otherwise; nothing but a load publishes; the initial load always        *)
(* returns to the statement after it (no error reaches the caller), and a  *)
(* callback's load leaves the supervisor where it is.                      *)
(***************************************************************************)
C1_LoadPublishesOnceOrNothing ==
  [][ /\ (InitialLoadStep \/ CallbackStep) =>
           IF LoadSucceedsNow
           THEN /\ Len(q_route_spec') = Len(q_route_spec) + 1
                /\ SubSeq(q_route_spec', 1, Len(q_route_spec)) = q_route_spec
           ELSE q_route_spec' = q_route_spec
      /\ InitialLoadStep => supPc' = "add_watch"
      /\ CallbackStep => supPc' = supPc
      /\ ~(InitialLoadStep \/ CallbackStep) => q_route_spec' = q_route_spec
    ]_vars

\* the initial load of a reconnect met a document the validator rejects,
\* and the sink still holds what was published before
C1_Witness ==
  /\ supPc = "add_watch"
  /\ initDoc = DocRejected
  /\ ~initPub
  /\ Len(q_route_spec) >= 1

(***************************************************************************)
(* C5: for every well-formed document the load publishes one RouteSpec     *)
(* whose keys are exactly the document's CIDRs and whose value for the     *)
(* CIDR of each group is the list of that group's host addresses, in the   *)
(* document's order (where two groups carry one CIDR, C7 says which wins). *)
(***************************************************************************)
C5_RouteSpecMatchesDocument ==
  (pending = 0 /\ reachable /\ WellFormed(doc)) =>
     /\ Len(q_route_spec) = 1
     /\ DOMAIN q_route_spec[1] = CidrsOf(doc)
     /\ \A i \in 1..Len(doc.networks) :
          OnlyWithItsCidr(doc, i) =>
             q_route_spec[1][doc.networks[i].cidr] = IpList(doc, i)

\* the scenario of the specification: net1, 10.0.0.0/24, two hosts
C5_Witness ==
  /\ pending = 0
  /\ doc = DocA
  /\ q_route_spec = <<("10.0.0.0/24" :> <<"10.0.0.1", "10.0.0.2">>)>>

(***************************************************************************)
(* C6: a document without the networks field, or with any entry lacking    *)
(* cidr or hosts, or any host lacking ip, gets nothing published, whatever *)
(* its other entries are.                                                  *)
(***************************************************************************)
C6_MalformedPublishesNothing ==
  (pending = 0 /\ ~StructurallySound(doc)) => q_route_spec = <<>>

\* a sound first entry, a second entry lacking a field, the load done
C6_Witness ==
  /\ pending = 0
  /\ reachable
  /\ doc.kind = "networks"
  /\ Len(doc.networks) = 2
  /\ WellFormed(NetworksDoc(<<doc.networks[1]>>))
  /\ ~StructurallySound(NetworksDoc(<<doc.networks[2]>>))
  /\ q_route_spec = <<>>

(***************************************************************************)
(* C7, as claimed: a document in which two network names carry the same    *)
(* CIDR gets nothing published.                                            *)
(***************************************************************************)
C7_DuplicateCidrRejected ==
  (pending = 0 /\ HasDuplicateCidr(doc)) => q_route_spec = <<>>

(***************************************************************************)
(* C7, amended: when two network names carry the same CIDR and the         *)
(* document is otherwise loadable, the load publishes one RouteSpec in     *)
(* which that CIDR maps to the hosts of the entry iterated last.           *)
(***************************************************************************)
C7_DuplicateCidrLastWins ==
  (pending = 0 /\ reachable /\ HasDuplicateCidr(doc)
     /\ StructurallySound(doc) /\ PassesValidation(doc)) =>
     /\ Len(q_route_spec) = 1
     /\ \A i \in 1..Len(doc.networks) :
          LastWithItsCidr(doc, i) =>
             q_route_spec[1][doc.networks[i].cidr] = IpList(doc, i)

\* two names, one CIDR, different hosts: the later entry's hosts are published
C7_Witness ==
  /\ pending = 0
  /\ HasDuplicateCidr(doc)
  /\ Len(doc.networks) = 2
  /\ IpList(doc, 1) # IpList(doc, 2)
  /\ Len(q_route_spec) = 1
  /\ q_route_spec[1][doc.networks[2].cidr] = IpList(doc, 2)

(***************************************************************************)
(* C2: the plugin does not go stale.  In a state where nothing is left to  *)
(* happen (the supervisor polls a connection on which its watch is         *)
(* registered, the store has answered ever since that connect began, no    *)
(* notification is outstanding, stop() has not been called) the last       *)
(* RouteSpec at the sink is that of the store's document, if the document  *)
(* is valid: whatever was written since the connect began has been         *)
(* published.  Such a state only changes when the environment acts, so a   *)
(* stale sink there stays stale.                                           *)
(***************************************************************************)
C2_NeverStale ==
  ( /\ supPc \in {"probe", "sleep"}
    /\ keep_running
    /\ stopPc = "idle"
    /\ etcd # None
    /\ watch_id # None
    /\ [client |-> etcd, wid |-> watch_id] \in watches
    /\ cleanConn
    /\ pending = 0
    /\ WellFormed(doc) ) =>
     /\ q_route_spec # <<>>
     /\ DOMAIN q_route_spec[Len(q_route_spec)] = CidrsOf(doc)
     /\ \A i \in 1..Len(doc.networks) :
          LastWithItsCidr(doc, i) =>
             q_route_spec[Len(q_route_spec)][doc.networks[i].cidr] = IpList(doc, i)

(***************************************************************************)
(* C3: once stop() has been called the supervisor thread eventually        *)
(* returns from watch_etcd, and stop() has returned only if it did.        *)
(***************************************************************************)
C3_StopEndsSupervisor ==
  /\ (stopPc # "idle") ~> (supPc = "done")
  /\ [](stopPc = "returned" => supPc = "done")

(***************************************************************************)
(* C4: after stop() has returned no watch of this plugin is alive at the   *)
(* store.                                                                  *)
(***************************************************************************)
C4_NoWatchAfterStop ==
  stopPc = "returned" => watches = {}

(***************************************************************************)
(* C8, as claimed: whenever a watch is registered on the connection the    *)
(* supervisor holds, that connection's initial load has published a        *)
(* RouteSpec.                                                              *)
(***************************************************************************)
C8_PublishedBeforeWatch ==
  watch_id # None => initPub

(***************************************************************************)
(* C8, amended: whenever a watch is registered on the connection the       *)
(* supervisor holds, that connection's initial load has run to its end;    *)
(* it has published a RouteSpec exactly when it fetched a document and     *)
(* that document was sound and passed validation, and that RouteSpec, the  *)
(* one of the fetched document, is then at the sink.                       *)
(***************************************************************************)
C8_LoadAttemptedBeforeWatch ==
  watch_id # None =>
     /\ initLoads = 1
     /\ initPub <=> (initDoc.kind = "networks" /\ StructurallySound(initDoc)
                       /\ PassesValidation(initDoc))
     /\ initPub =>
          \E n \in 1..Len(q_route_spec) :
             /\ DOMAIN q_route_spec[n] = CidrsOf(initDoc)
             /\ \A i \in 1..Len(initDoc.networks) :
                  LastWithItsCidr(initDoc, i) =>
                     q_route_spec[n][initDoc.networks[i].cidr] = IpList(initDoc, i)

\* a watch registered after an initial load that published
C8_Witness ==
  /\ watch_id # None
  /\ supPc = "probe"
  /\ initPub
  /\ initDoc = DocA
  /\ Len(q_route_spec) = 1

(***************************************************************************)
(* C9: every watch registration is preceded by exactly one initial load on *)
(* the client it is registered on, a client created for this attempt and   *)
(* carrying no earlier registration; and a probe that fails while the      *)
(* plugin runs leads back through the reset of both handles to a connect.  *)
(***************************************************************************)
C9_OneLoadBeforeEachWatch ==
  /\ [](supPc = "load" =>
          /\ initLoads = 0
          /\ etcd # None
          /\ \A w \in watches : w.client # etcd)
  /\ [](supPc = "add_watch" => initLoads = 1)
  /\ [][(supPc = "add_watch" /\ watch_id' # None) =>
          /\ initLoads = 1
          /\ [client |-> etcd', wid |-> watch_id'] \in watches']_vars
  /\ [][(supPc = "outer" /\ keep_running /\ supPc' # "outer") => supPc' = "clr_etcd"]_vars
  /\ [][(supPc = "guard" /\ supPc' # "guard") => supPc' = "connect"]_vars
  /\ [][(supPc = "connect" /\ supPc' # "connect") =>
          \/ supPc' = "load" /\ etcd' # None
          \/ supPc' = "exc_etcd"]_vars

\* the second connection: its watch is registered after one load, while the
\* registration of the connection that was lost is still alive
C9_Witness ==
  /\ supPc = "probe"
  /\ watch_id # None
  /\ initLoads = 1
  /\ reachable
  /\ \E w \in watches : w.client # etcd

(***************************************************************************)
(* C10: the supervisor thread ends only with keep_running false; a probe   *)
(* that fails leads to the test of keep_running and, while it is true, to  *)
(* the reset of both handles and a new connect attempt.                    *)
(***************************************************************************)
C10_ProbeFailureReconnects ==
  /\ [](supPc = "done" => ~keep_running)
  /\ [][(supPc = "probe" /\ supPc' # "probe") =>
          supPc' = IF etcd # None /\ reachable /\ keep_running THEN "sleep" ELSE "outer"]_vars
  /\ [][(supPc = "outer" /\ supPc' # "outer") =>
          supPc' = IF keep_running THEN "clr_etcd" ELSE "done"]_vars
  /\ [][supPc' = "done" => supPc \in {"outer", "done"}]_vars
  /\ [](supPc \in {"guard", "connect"} => etcd = None /\ watch_id = None)
  /\ [][(supPc = "guard" /\ supPc' # "guard") => supPc' = "connect"]_vars

\* after a failed probe of a watched connection: the handles are cleared,
\* the plugin runs and the next connect attempt is about to be made
C10_Witness ==
  /\ supPc = "connect"
  /\ keep_running
  /\ ~reachable
  /\ watches # {}


(***************************************************************************)
(* Connection management, stop() and the callback.                         *)
(***************************************************************************)
\* the supervisor's thread takes a step
SupStep == supPc' # supPc
\* stop() takes a step
StopStep == stopPc' # stopPc
\* the registration the plugin's two handles name
CurrentWatch == [client |-> etcd, wid |-> watch_id]

\* C11: a failure while opening the client or registering the watch takes
\* control to the except clause, which leaves both handles None and returns
\* to the loop; the thread does not end there, and from the failure up to
\* the next attempt to open a client the supervisor never sleeps: it sleeps
\* only with a client handle, and a client handle comes only from connecting
C11_FailedConnectRetriesAtOnce ==
  /\ [][(supPc \in {"connect", "add_watch"} /\ SupStep /\ ~reachable
           /\ supPc' \notin {"load", "add_watch"})
          => supPc' = "exc_etcd"]_vars
  /\ [][(supPc = "exc_etcd" /\ SupStep) => (supPc' = "exc_watch" /\ etcd' = None)]_vars
  /\ [][(supPc = "exc_watch" /\ SupStep)
          => (supPc' = "probe" /\ etcd' = None /\ watch_id' = None)]_vars
  /\ [][(supPc = "probe" /\ etcd = None /\ SupStep)
          => (supPc' = "outer" /\ etcd' = None /\ watch_id' = None)]_vars
  /\ [][(supPc = "outer" /\ keep_running /\ SupStep) => supPc' = "clr_etcd"]_vars
  /\ [][(supPc = "clr_etcd" /\ SupStep) => supPc' = "clr_watch"]_vars
  /\ [][(supPc = "clr_watch" /\ SupStep) => supPc' = "guard"]_vars
  /\ [][(supPc = "guard" /\ etcd = None /\ SupStep) => supPc' = "connect"]_vars
  /\ [][supPc' = "sleep" => (etcd # None /\ watch_id # None)]_vars
  /\ [][(etcd = None /\ etcd' # None) => supPc = "connect"]_vars

\* registering the watch has failed after the initial read; both handles are
\* None again and the running supervisor is about to test the connection
C11_Witness ==
  /\ supPc = "probe"
  /\ etcd = None
  /\ watch_id = None
  /\ initLoads = 1
  /\ keep_running

\* C12: stop() called while the watch the handles name is registered goes on
\* to cancel it, whatever the value of the handle
C12_StopCancelsEveryHandle ==
  [][(stopPc = "idle" /\ StopStep /\ watch_id # None /\ etcd # None
        /\ CurrentWatch \in watches)
       => stopPc' = "load_etcd"]_vars

\* C13: no exception leaves stop()
C13_StopNeverRaises == stopPc # "raised"

\* C14: a run of event_callback lets no exception out, writes neither handle
\* nor the running flag, moves neither the supervisor nor stop(), and does
\* one load: at most one RouteSpec more on the queue, and none when there is
\* no client or no answer from the store
C14_CallbackOnlyLoads ==
  /\ [][cbRaised' = FALSE]_vars
  /\ [][(pending' < pending)
          => /\ etcd' = etcd
             /\ watch_id' = watch_id
             /\ keep_running' = keep_running
             /\ supPc' = supPc
             /\ stopPc' = stopPc
             /\ stopEtcd' = stopEtcd
             /\ watches' = watches
             /\ pending' = pending - 1
             /\ \/ q_route_spec' = q_route_spec
                \/ /\ Len(q_route_spec') = Len(q_route_spec) + 1
                   /\ SubSeq(q_route_spec', 1, Len(q_route_spec)) = q_route_spec
             /\ (etcd = None \/ ~reachable) => q_route_spec' = q_route_spec]_vars

\* the callback has run with the client handle cleared, and a RouteSpec
\* published earlier is still the only one
C14_Witness ==
  /\ etcd = None
  /\ pending = 0
  /\ nChanges = 1
  /\ watches # {}
  /\ Len(q_route_spec) = 1
  /\ ~cbRaised

\* C15: check_arguments accepts the port exactly when it lies in 1..65534,
\* raises ArgsError for every other port before it looks at the address, and
\* for an accepted port applies ip_check to every address but "localhost",
\* whose verdict then decides
C15_PortRangeAndAddressCheck ==
  argCheck # Unchecked =>
    /\ (argCheck.result # "ArgsError: port") <=> (conf.port \in 1..65534)
    /\ (conf.port <= 0 \/ conf.port >= 65535) => argCheck.result = "ArgsError: port"
    /\ (conf.port \in 1..65534) => (argCheck.ipChecked <=> conf.addr # "localhost")
    /\ (conf.port \in 1..65534 /\ conf.addr = "localhost") => argCheck.result = "accepted"
    /\ argCheck.ipChecked =>
         (argCheck.result = "accepted" <=> IpCheckPasses(conf.addr))

\* the largest accepted port, with an address that goes through ip_check
C15_Witness ==
  /\ conf.port = 65534
  /\ conf.addr = "10.0.0.1"
  /\ argCheck.result = "accepted"
  /\ argCheck.ipChecked

\* C16: entered with a client handle, an answering store and a watch handle
\* (0 included), establish returns at once and changes nothing; entered in
\* any other state it opens a client, then loads, then registers the watch,
\* unless an exception takes it to the except clause
C16_EstablishIdempotent ==
  /\ [][(supPc = "guard" /\ SupStep)
          => IF etcd # None /\ reachable /\ watch_id # None
               THEN /\ supPc' = "probe"
                    /\ UNCHANGED <<etcd, watch_id, q_route_spec, watches, initLoads>>
               ELSE supPc' = "connect"]_vars
  /\ [][(supPc = "connect" /\ SupStep)
          => \/ supPc' = "load" /\ etcd' # None /\ etcd' # etcd
             \/ supPc' = "exc_etcd"]_vars
  /\ [][(supPc = "load" /\ SupStep)
          => (supPc' = "add_watch" /\ initLoads' = initLoads + 1)]_vars
  /\ [][(supPc = "add_watch" /\ SupStep)
          => \/ /\ supPc' = "probe"
                /\ watch_id' # None
                /\ [client |-> etcd, wid |-> watch_id'] \in watches'
             \/ supPc' = "exc_etcd"]_vars

\* the call has returned with the client and the watch handle 0 it was
\* entered with, and nothing was loaded
C16_Witness ==
  /\ supPc = "probe"
  /\ etcd = 1
  /\ watch_id = 0
  /\ watches = {[client |-> 1, wid |-> 0]}
  /\ initLoads = 0
  /\ q_route_spec = <<>>

\* C17: the running flag changes only in stop(), only to FALSE, and never
\* back; the two handles change only in steps of the supervisor's thread,
\* never in a step of stop() or of the callback
C17_WritersOfSharedState ==
  /\ [][(keep_running' # keep_running)
          => (stopPc = "set_flag" /\ StopStep /\ ~SupStep /\ keep_running' = FALSE)]_vars
  /\ [][~keep_running => ~keep_running']_vars
  /\ [][(etcd' # etcd \/ watch_id' # watch_id)
          => (SupStep /\ ~StopStep /\ pending' >= pending)]_vars

\* stop() has cancelled the watch and cleared the flag, and both handles
\* are as the supervisor left them
C17_Witness ==
  /\ stopPc = "join"
  /\ ~keep_running
  /\ etcd # None
  /\ watch_id = 1
  /\ watches = {}

\* C18: at most one registration of the plugin is alive at the store, and
\* one change of the document leaves at most one notification to deliver
C18_AtMostOneActiveWatch ==
  /\ Cardinality(watches) <= 1
  /\ pending <= nChanges

\* C19: once establish has returned and the supervisor tests or sleeps, the
\* client handle and the watch handle are both set or both None
C19_HandlesSetTogether ==
  supPc \in {"probe", "sleep"} => (etcd = None <=> watch_id = None)

\* the supervisor sleeps between two tests with both handles set
C19_Witness ==
  /\ supPc = "sleep"
  /\ etcd # None
  /\ watch_id = 0
  /\ CurrentWatch \in watches

====
